---- MODULE Spec2Model ----
(***************************************************************************)
(* Prediction engine of the house price service                            *)
(* (backend/app/ml/predictor.py): the singleton PredictionEngine, its      *)
(* load_model / predict / get_locations / get_model_info operations, and   *)
(* the arithmetic of the confidence interval.                              *)
(*                                                                         *)
(* A bundle is identified by a version number; an engine field holds the   *)
(* version of the bundle its value came from, 0 standing for the value     *)
(* __init__ gives it (None, [] or {}).  load_model and the readers are     *)
(* modelled statement by statement, because the engine takes no lock and   *)
(* a thread switch can fall between any two attribute accesses.            *)
(* Floats are modelled as exact rationals <<numerator, denominator>>.      *)
(***************************************************************************)
EXTENDS Integers, Sequences, FiniteSets, TLC

\* ------------------------------------------------------------------ bounds
\* Number of distinct trained bundles that can be published.
MaxVer == 2
\* Number of load_model calls in one behaviour.
MaxLoads == 2

\* Number of rows of a raw dataset.
MaxRows == 3

\* ------------------------------------------------------------- rationals
RECURSIVE GCD(_, _)
GCD(a, b) == IF b = 0 THEN a ELSE GCD(b, a % b)

Abs(x) == IF x < 0 THEN -x ELSE x

\* n/d in lowest terms with a positive denominator (d # 0).
Rat(n, d) ==
    LET g == GCD(Abs(n), Abs(d))
        s == IF d < 0 THEN -1 ELSE 1
    IN  <<(s * n) \div g, (s * d) \div g>>

RAdd(a, b) == Rat(a[1] * b[2] + b[1] * a[2], a[2] * b[2])
RSub(a, b) == Rat(a[1] * b[2] - b[1] * a[2], a[2] * b[2])
RMul(a, b) == Rat(a[1] * b[1], a[2] * b[2])
RDiv(a, b) == Rat(a[1] * b[2], a[2] * b[1])
RLt(a, b) == a[1] * b[2] < b[1] * a[2]
RLe(a, b) == a[1] * b[2] <= b[1] * a[2]
RInt(n) == <<n, 1>>

\* Python's max(a, b) and min(a, b): the first argument unless the second
\* is strictly greater (smaller).
PyMax(a, b) == IF RLt(a, b) THEN b ELSE a
PyMin(a, b) == IF RLt(b, a) THEN b ELSE a

\* Python's round(x, 0): round half to even.
PyRound(a) ==
    LET q == a[1] \div a[2]
        r == a[1] - q * a[2]
    IN  IF 2 * r < a[2] THEN q
        ELSE IF 2 * r > a[2] THEN q + 1
        ELSE IF q % 2 = 0 THEN q ELSE q + 1

\* Python's round(x, 2), as a rational.
PyRound2(a) == Rat(PyRound(RMul(a, RInt(100))), 100)

\* ------------------------------------------------------------ evaluation
\* F applied to the value of e, e being evaluated once ("x = e" followed by
\* statements that use x).
Bind(e, F(_)) == CHOOSE r \in {F(x) : x \in {e}} : TRUE

\* --------------------------------------------------------------- strings
\* Python str operations, computed character by character.
Uppers == "ABCDEFGHIJKLMNOPQRSTUVWXYZ"
Lowers == "abcdefghijklmnopqrstuvwxyz"
Ch(s, i) == SubSeq(s, i, i)
IsUpper(c) == \E i \in 1..Len(Uppers) : Ch(Uppers, i) = c
IsLower(c) == \E i \in 1..Len(Lowers) : Ch(Lowers, i) = c
IsLetter(c) == IsUpper(c) \/ IsLower(c)
IsSpace(c) == c \in {" ", "\t", "\n"}
LowerCh(c) ==
    IF IsUpper(c)
    THEN Ch(Lowers, CHOOSE i \in 1..Len(Uppers) : Ch(Uppers, i) = c)
    ELSE c
UpperCh(c) ==
    IF IsLower(c)
    THEN Ch(Uppers, CHOOSE i \in 1..Len(Lowers) : Ch(Lowers, i) = c)
    ELSE c

\* str.lower() and str.upper().
RECURSIVE Lower(_)
Lower(s) == IF s = "" THEN "" ELSE LowerCh(Head(s)) \o Lower(Tail(s))
RECURSIVE Upper(_)
Upper(s) == IF s = "" THEN "" ELSE UpperCh(Head(s)) \o Upper(Tail(s))

\* str.strip(): the positions of the first and of the last character that
\* is not whitespace.
RECURSIVE FirstKept(_, _)
FirstKept(s, i) ==
    IF i <= Len(s) /\ IsSpace(Ch(s, i)) THEN FirstKept(s, i + 1) ELSE i
RECURSIVE LastKept(_, _)
LastKept(s, i) ==
    IF i >= 1 /\ IsSpace(Ch(s, i)) THEN LastKept(s, i - 1) ELSE i
Strip(s) == SubSeq(s, FirstKept(s, 1), LastKept(s, Len(s)))

\* str.title(): a letter is upper-cased when it follows a non-letter (or
\* starts the string) and lower-cased otherwise.
RECURSIVE TitleFrom(_, _)
TitleFrom(s, afterLetter) ==
    IF s = "" THEN ""
    ELSE LET c == Head(s)
         IN  (IF afterLetter THEN LowerCh(c) ELSE UpperCh(c))
                 \o TitleFrom(Tail(s), IsLetter(c))
Title(s) == TitleFrom(s, FALSE)

\* --------------------------------------------------------------- bundles
\* Keys of the bundle dictionary that load_model reads.
HardKeys == <<"model", "scaler", "label_encoder", "features",
              "location_classes">>
SoftKeys == {"location_stats", "train_metrics", "test_metrics",
             "feature_importance"}
BundleKeys == {HardKeys[i] : i \in 1..Len(HardKeys)} \cup SoftKeys

\* What os.path.exists / joblib.load find at the model path; "whole" is
\* false for a file whose pickle stream has not been written to its end.
Absent == [exists |-> FALSE, ver |-> 0, keys |-> {}, whole |-> TRUE]
Complete(v) ==
    [exists |-> TRUE, ver |-> v, keys |-> BundleKeys, whole |-> TRUE]
Lacking(v, k) ==
    [exists |-> TRUE, ver |-> v, keys |-> BundleKeys \ {k}, whole |-> TRUE]
Partial(v) == [exists |-> TRUE, ver |-> v, keys |-> {}, whole |-> FALSE]
Artifacts ==
    {Absent} \cup {Complete(v) : v \in 1..MaxVer}
             \cup {Lacking(v, k) : v \in 1..MaxVer, k \in BundleKeys}

\* label_encoder.classes_ / location_classes of the bundle of version v.
ClassesOf(v) ==
    IF v = 0 THEN {}
    ELSE IF v % 2 = 1 THEN {"Kharghar", "Vashi"}
    ELSE {"Kharghar", "Nerul", "CBD Belapur"}

\* Locations a caller may pass to predict.
Locations == {"Kharghar", "Vashi", "vashi", "Nerul", "Mumbai"}

LowerOf(s) ==
    CASE s = "Kharghar" -> "kharghar"
      [] s = "Vashi" -> "vashi"
      [] s = "Nerul" -> "nerul"
      [] s = "Mumbai" -> "mumbai"
      [] OTHER -> s

\* area_sqft arguments (a float in the code; integers suffice here).
Areas == {0, 102, 1000}

\* Values model.predict can return and standard deviations np.std can
\* return for the last staged predictions.
PointPredictions ==
    {Rat(-100, 1), Rat(0, 1), Rat(1, 1), Rat(25, 2), Rat(100, 1),
     Rat(763, 5)}
StdDevs == {Rat(0, 1), Rat(6, 1), Rat(15, 1), Rat(30, 1)}

VARIABLES
    artifact,            \* what load_model last found at the model path
    initialized,         \* PredictionEngine._instance._initialized
    model, scaler, label_encoder, features, location_classes,
    location_stats, model_metrics, feature_importance,
    load_pc,             \* line load_model is at ("idle" outside a call)
    bundle,              \* load_model's local `bundle`
    load_outcome,        \* how the last load_model call ended
    n_loads,             \* load_model calls so far
    ever_loaded,         \* some load_model call has returned normally
    call_op,             \* operation the reader thread runs
    call_pc,             \* line the reader is at
    args,                \* arguments of the call
    seen,                \* version of each engine field the call has read
    invoked,             \* collaborators the call has invoked
    locals,              \* predicted_price, std_dev, confidence_score, margin
    outcome,             \* "none", "return" or the exception raised
    result,              \* value returned
    route_pc,            \* line the HTTP route handler is at
    request,             \* HTTP request being served
    response,            \* HTTP response to that request
    fn,                  \* preprocessing function last applied
    raw,                 \* its argument
    cleaned,             \* what it returned or raised
    file,                \* the file train_model writes at the model path
    train_pc             \* line train_model is at

engine == <<model, scaler, label_encoder, features, location_classes,
            location_stats, model_metrics, feature_importance>>
loader == <<load_pc, bundle, load_outcome, n_loads, ever_loaded>>
reader == <<call_op, call_pc, args, seen, invoked, locals, outcome, result>>
http == <<route_pc, request, response>>
prep == <<fn, raw, cleaned>>
trainer == <<file, train_pc>>
others == <<http, prep, trainer>>
vars == <<artifact, initialized, engine, loader, reader, others>>

NoArgs == [location |-> "", area_sqft |-> 0]
NoSeen == [f \in {} |-> 0]
NoLocals == [predicted_price |-> Rat(0, 1), std_dev |-> Rat(0, 1),
             confidence_score |-> Rat(0, 1), margin |-> Rat(0, 1)]
NoResult == [kind |-> "none"]
NoRequest == [route |-> "none"]
NoResponse == [status |-> 0]
NoValue == [t |-> "none"]

\* ------------------------------------------------------- construction
\* __init__ body after the _initialized guard.
InitFields ==
    /\ model = 0 /\ scaler = 0 /\ label_encoder = 0
    /\ features = 0 /\ location_classes = 0 /\ location_stats = 0
    /\ model_metrics = [train |-> 0, test |-> 0]
    /\ feature_importance = 0

\* State after `engine = PredictionEngine()` at import of predictor.py.
Init ==
    /\ artifact = Absent
    /\ initialized = TRUE
    /\ InitFields
    /\ load_pc = "idle" /\ bundle = Absent /\ load_outcome = "none"
    /\ n_loads = 0 /\ ever_loaded = FALSE
    /\ call_op = "none" /\ call_pc = "idle" /\ args = NoArgs
    /\ seen = NoSeen /\ invoked = {} /\ locals = NoLocals
    /\ outcome = "none" /\ result = NoResult
    /\ route_pc = "idle" /\ request = NoRequest /\ response = NoResponse
    /\ fn = "none" /\ raw = NoValue /\ cleaned = NoValue
    /\ file = Absent /\ train_pc = "idle"

\* __init__ without its `if self._initialized: return` guard: every
\* construction resets the fields.
ConstructUnguarded ==
    /\ model' = 0 /\ scaler' = 0 /\ label_encoder' = 0
    /\ features' = 0 /\ location_classes' = 0
    /\ location_stats' = 0
    /\ model_metrics' = [train |-> 0, test |-> 0]
    /\ feature_importance' = 0
    /\ initialized' = TRUE
    /\ UNCHANGED <<artifact, loader, reader>>
    /\ UNCHANGED others

\* PredictionEngine() called again: __new__ returns the one instance and
\* __init__ returns at once because _initialized is set.
Construct ==
    /\ IF initialized
       THEN UNCHANGED engine
       ELSE /\ model' = 0 /\ scaler' = 0 /\ label_encoder' = 0
            /\ features' = 0 /\ location_classes' = 0
            /\ location_stats' = 0
            /\ model_metrics' = [train |-> 0, test |-> 0]
            /\ feature_importance' = 0
    /\ initialized' = TRUE
    /\ UNCHANGED <<artifact, loader, reader>>
    /\ UNCHANGED others

\* is_loaded(): self.model is not None.
is_loaded == model # 0

\* ----------------------------------------------------------- load_model
LoadRaise(e) ==
    /\ load_outcome' = e
    /\ load_pc' = "idle"

\* Lines 64-73: resolve the path, os.path.exists.  The file found at the
\* path is an input of the call: any artifact of Arts may be there.
LoadCall(Arts) ==
    /\ load_pc = "idle"
    /\ n_loads < MaxLoads
    /\ n_loads' = n_loads + 1
    /\ \E a \in Arts :
         /\ artifact' = a
         /\ IF a.exists
            THEN /\ load_pc' = "l74"
                 /\ load_outcome' = "none"
            ELSE LoadRaise("FileNotFoundError")
    /\ UNCHANGED <<initialized, engine, bundle, ever_loaded, reader>>
    /\ UNCHANGED others

\* What unpickling a truncated file raises.
TornErrors == {"EOFError", "UnpicklingError"}

\* Line 74: bundle = joblib.load(model_path).  The file may have been
\* replaced or removed since line 67; a file that is not whole cannot be
\* unpickled.
Load_l74(Arts) ==
    /\ load_pc = "l74"
    /\ \E a \in Arts :
         /\ artifact' = a
         /\ IF a.exists /\ a.whole
            THEN /\ bundle' = a
                 /\ load_pc' = "l76"
                 /\ UNCHANGED load_outcome
            ELSE /\ IF a.exists
                    THEN \E e \in TornErrors : LoadRaise(e)
                    ELSE LoadRaise("FileNotFoundError")
                 /\ UNCHANGED bundle
    /\ UNCHANGED <<initialized, engine, n_loads, ever_loaded, reader>>
    /\ UNCHANGED others

\* bundle[k]: the value, or KeyError.
HasKey(k) == k \in bundle.keys
\* bundle.get(k, {}): the value, or the default.
GetOrDefault(k) == IF k \in bundle.keys THEN bundle.ver ELSE 0

\* Line 76: self.model = bundle["model"].
Load_l76 ==
    /\ load_pc = "l76"
    /\ IF HasKey("model")
       THEN /\ model' = bundle.ver
            /\ load_pc' = "l77"
            /\ UNCHANGED load_outcome
       ELSE /\ LoadRaise("KeyError")
            /\ UNCHANGED model
    /\ UNCHANGED <<artifact, initialized, scaler, label_encoder, features,
                   location_classes, location_stats, model_metrics,
                   feature_importance, bundle, n_loads, ever_loaded, reader>>
    /\ UNCHANGED others

\* Line 77: self.scaler = bundle["scaler"].
Load_l77 ==
    /\ load_pc = "l77"
    /\ IF HasKey("scaler")
       THEN /\ scaler' = bundle.ver
            /\ load_pc' = "l78"
            /\ UNCHANGED load_outcome
       ELSE /\ LoadRaise("KeyError")
            /\ UNCHANGED scaler
    /\ UNCHANGED <<artifact, initialized, model, label_encoder, features,
                   location_classes, location_stats, model_metrics,
                   feature_importance, bundle, n_loads, ever_loaded, reader>>
    /\ UNCHANGED others

\* Line 78: self.label_encoder = bundle["label_encoder"].
Load_l78 ==
    /\ load_pc = "l78"
    /\ IF HasKey("label_encoder")
       THEN /\ label_encoder' = bundle.ver
            /\ load_pc' = "l79"
            /\ UNCHANGED load_outcome
       ELSE /\ LoadRaise("KeyError")
            /\ UNCHANGED label_encoder
    /\ UNCHANGED <<artifact, initialized, model, scaler, features,
                   location_classes, location_stats, model_metrics,
                   feature_importance, bundle, n_loads, ever_loaded, reader>>
    /\ UNCHANGED others

\* Line 79: self.features = bundle["features"].
Load_l79 ==
    /\ load_pc = "l79"
    /\ IF HasKey("features")
       THEN /\ features' = bundle.ver
            /\ load_pc' = "l80"
            /\ UNCHANGED load_outcome
       ELSE /\ LoadRaise("KeyError")
            /\ UNCHANGED features
    /\ UNCHANGED <<artifact, initialized, model, scaler, label_encoder,
                   location_classes, location_stats, model_metrics,
                   feature_importance, bundle, n_loads, ever_loaded, reader>>
    /\ UNCHANGED others

\* Line 80: self.location_classes = bundle["location_classes"].
Load_l80 ==
    /\ load_pc = "l80"
    /\ IF HasKey("location_classes")
       THEN /\ location_classes' = bundle.ver
            /\ load_pc' = "l81"
            /\ UNCHANGED load_outcome
       ELSE /\ LoadRaise("KeyError")
            /\ UNCHANGED location_classes
    /\ UNCHANGED <<artifact, initialized, model, scaler, label_encoder,
                   features, location_stats, model_metrics,
                   feature_importance, bundle, n_loads, ever_loaded, reader>>
    /\ UNCHANGED others

\* Line 81: self.location_stats = bundle.get("location_stats", {}).
Load_l81 ==
    /\ load_pc = "l81"
    /\ location_stats' = GetOrDefault("location_stats")
    /\ load_pc' = "l82"
    /\ UNCHANGED <<artifact, initialized, model, scaler, label_encoder,
                   features, location_classes, model_metrics,
                   feature_importance, bundle, load_outcome, n_loads,
                   ever_loaded, reader>>
    /\ UNCHANGED others

\* Lines 82-85: self.model_metrics = {"train": ..., "test": ...}.
Load_l82 ==
    /\ load_pc = "l82"
    /\ model_metrics' = [train |-> GetOrDefault("train_metrics"),
                         test |-> GetOrDefault("test_metrics")]
    /\ load_pc' = "l86"
    /\ UNCHANGED <<artifact, initialized, model, scaler, label_encoder,
                   features, location_classes, location_stats,
                   feature_importance, bundle, load_outcome, n_loads,
                   ever_loaded, reader>>
    /\ UNCHANGED others

\* Lines 86-92: self.feature_importance = ..., log, return.
Load_l86 ==
    /\ load_pc = "l86"
    /\ feature_importance' = GetOrDefault("feature_importance")
    /\ load_pc' = "idle"
    /\ load_outcome' = "ok"
    /\ ever_loaded' = TRUE
    /\ UNCHANGED <<artifact, initialized, model, scaler, label_encoder,
                   features, location_classes, location_stats,
                   model_metrics, bundle, n_loads, reader>>
    /\ UNCHANGED others

\* ------------------------------------------- predict: interval arithmetic
\* Line 173: max_std = predicted_price * 0.15.
MaxStd(p) == RMul(p, Rat(15, 100))

\* Line 174: max(0.5, min(1.0, 1.0 - std_dev / max_std)), max_std # 0.
ConfidenceScore(p, s) ==
    PyMax(Rat(1, 2), PyMin(RInt(1), RSub(RInt(1), RDiv(s, MaxStd(p)))))

\* Line 177: margin = 0.08 + (1 - confidence_score) * 0.04.
Margin(c) == RAdd(Rat(8, 100), RMul(RSub(RInt(1), c), Rat(4, 100)))

\* Lines 178-179.
PriceLow(p, m) == RMul(p, RSub(RInt(1), m))
PriceHigh(p, m) == RMul(p, RAdd(RInt(1), m))

\* Price per square foot taken from the rounded price of the result.
PricePerSqftOfRounded(p, a) ==
    IF a > 0 THEN RDiv(RInt(PyRound(p)), RInt(a)) ELSE RInt(0)

\* Line 182: predicted_price / area_sqft if area_sqft > 0 else 0.
PricePerSqft(p, a) == IF a > 0 THEN RDiv(p, RInt(a)) ELSE RInt(0)

\* ------------------------------------------------------------ the reader
\* Record that the call has read engine field f, holding version v.
See(f, v) == [x \in DOMAIN seen \cup {f} |-> IF x = f THEN v ELSE seen[x]]

\* The call raises exception e at line l.
Raise(e, l) ==
    /\ outcome' = e
    /\ result' = [kind |-> "raise", at |-> l]
    /\ call_pc' = "idle"

\* A new call starts from a clean frame.
Enter(op, a) ==
    /\ call_pc = "idle"
    /\ call_op' = op
    /\ args' = a
    /\ invoked' = {}
    /\ locals' = NoLocals

\* Lines 131-132: predict(...) is called; is_loaded() reads self.model.
PredictCall(Locs, As) ==
    \E loc \in Locs, a \in As :
      /\ Enter("predict", [location |-> loc, area_sqft |-> a])
      /\ seen' = [is_loaded |-> model]
      /\ IF model = 0
         THEN Raise("RuntimeError", "l132")
         ELSE /\ call_pc' = "l135"
              /\ outcome' = "none"
              /\ result' = NoResult
      /\ UNCHANGED <<artifact, initialized, engine, loader, others>>

\* A location check that ignores letter case.
KnownLocationAnyCase(loc, classes) ==
    LowerOf(loc) \in {LowerOf(c) : c \in classes}

\* Line 135: location not in self.location_classes (list membership, ==).
KnownLocation(loc, classes) == loc \in classes

\* Lines 135-139: validate the location.
Predict_l135 ==
    /\ call_pc = "l135"
    /\ seen' = See("location_classes", location_classes)
    /\ IF KnownLocation(args.location, ClassesOf(location_classes))
       THEN /\ call_pc' = "l142"
            /\ UNCHANGED <<outcome, result>>
       ELSE Raise("ValueError", "l136")
    /\ UNCHANGED <<artifact, initialized, engine, loader, call_op, args,
                   invoked, locals>>
    /\ UNCHANGED others

\* Line 142: self.label_encoder.transform([location]); LabelEncoder raises
\* ValueError on a label it was not fitted on.
Predict_l142 ==
    /\ call_pc = "l142"
    /\ seen' = See("label_encoder", label_encoder)
    /\ IF label_encoder = 0
       THEN /\ Raise("AttributeError", "l142")
            /\ UNCHANGED invoked
       ELSE /\ invoked' = invoked \cup {"label_encoder"}
            /\ IF args.location \in ClassesOf(label_encoder)
               THEN /\ call_pc' = "l157"
                    /\ UNCHANGED <<outcome, result>>
               ELSE Raise("ValueError", "l142")
    /\ UNCHANGED <<artifact, initialized, engine, loader, call_op, args,
                   locals>>
    /\ UNCHANGED others

\* Lines 145-157: pd.DataFrame([feature_values], columns=self.features).
Predict_l157 ==
    /\ call_pc = "l157"
    /\ seen' = See("features", features)
    /\ call_pc' = "l160"
    /\ UNCHANGED <<artifact, initialized, engine, loader, call_op, args,
                   invoked, locals, outcome, result>>
    /\ UNCHANGED others

\* Line 160: self.scaler.transform(input_df); StandardScaler raises
\* ValueError on a frame without columns.
Predict_l160 ==
    /\ call_pc = "l160"
    /\ seen' = See("scaler", scaler)
    /\ IF scaler = 0
       THEN /\ Raise("AttributeError", "l160")
            /\ UNCHANGED invoked
       ELSE /\ invoked' = invoked \cup {"scaler"}
            /\ IF seen.features = 0
               THEN Raise("ValueError", "l160")
               ELSE /\ call_pc' = "l163"
                    /\ UNCHANGED <<outcome, result>>
    /\ UNCHANGED <<artifact, initialized, engine, loader, call_op, args,
                   locals>>
    /\ UNCHANGED others

\* Line 163: predicted_price = float(self.model.predict(input_scaled)[0]).
\* The model is a black box: it may return any value of PP.
Predict_l163(PP) ==
    /\ call_pc = "l163"
    /\ seen' = See("model", model)
    /\ IF model = 0
       THEN /\ Raise("AttributeError", "l163")
            /\ UNCHANGED <<invoked, locals>>
       ELSE /\ invoked' = invoked \cup {"model"}
            /\ \E p \in PP :
                 locals' = [locals EXCEPT !.predicted_price = p]
            /\ call_pc' = "l167"
            /\ UNCHANGED <<outcome, result>>
    /\ UNCHANGED <<artifact, initialized, engine, loader, call_op, args>>
    /\ UNCHANGED others

\* Lines 167-182: staged_predict, the standard deviation of the last 20
\* stages (any value of SD), confidence score, margin, range.  Float
\* division by max_std = 0.0 raises ZeroDivisionError.
Predict_l167(SD) ==
    /\ call_pc = "l167"
    /\ seen' = See("model_staged", model)
    /\ IF model = 0
       THEN /\ Raise("AttributeError", "l167")
            /\ UNCHANGED locals
       ELSE \E s \in SD :
              LET p == locals.predicted_price IN
              IF MaxStd(p)[1] = 0
              THEN /\ locals' = [locals EXCEPT !.std_dev = s]
                   /\ Raise("ZeroDivisionError", "l174")
              ELSE LET c == ConfidenceScore(p, s) IN
                   /\ locals' = [locals EXCEPT !.std_dev = s,
                                               !.confidence_score = c,
                                               !.margin = Margin(c)]
                   /\ call_pc' = "l185"
                   /\ UNCHANGED <<outcome, result>>
    /\ UNCHANGED <<artifact, initialized, engine, loader, call_op, args,
                   invoked>>
    /\ UNCHANGED others

\* Line 185 with pop in place of get: the entry read is removed from
\* self.location_stats.
Predict_l185_Pop ==
    /\ call_pc = "l185"
    /\ seen' = See("location_stats", location_stats)
    /\ call_pc' = "l187"
    /\ location_stats' = 0
    /\ UNCHANGED <<model, scaler, label_encoder, features, location_classes,
                   model_metrics, feature_importance>>
    /\ UNCHANGED <<artifact, initialized, loader, call_op, args,
                   invoked, locals, outcome, result>>
    /\ UNCHANGED others

\* Line 185: loc_stats = self.location_stats.get(location, {}).
Predict_l185 ==
    /\ call_pc = "l185"
    /\ seen' = See("location_stats", location_stats)
    /\ call_pc' = "l187"
    /\ UNCHANGED <<artifact, initialized, engine, loader, call_op, args,
                   invoked, locals, outcome, result>>
    /\ UNCHANGED others

\* Lines 187-221: build the result (reads self.feature_importance), return.
Predict_l187 ==
    /\ call_pc = "l187"
    /\ seen' = See("feature_importance", feature_importance)
    /\ LET p == locals.predicted_price
           m == locals.margin
       IN  result' =
             [kind |-> "return",
              predicted_price |-> PyRound(p),
              low |-> PyRound(PriceLow(p, m)),
              high |-> PyRound(PriceHigh(p, m)),
              price_per_sqft |-> PyRound(PricePerSqft(p, args.area_sqft)),
              confidence_score |-> PyRound2(locals.confidence_score),
              location_context |-> seen.location_stats,
              feature_importance |-> feature_importance]
    /\ outcome' = "return"
    /\ call_pc' = "idle"
    /\ UNCHANGED <<artifact, initialized, engine, loader, call_op, args,
                   invoked, locals>>
    /\ UNCHANGED others

\* is_loaded() called by a client (the health check).
IsLoadedCall ==
    /\ Enter("is_loaded", NoArgs)
    /\ seen' = [is_loaded |-> model]
    /\ result' = [kind |-> "return", value |-> is_loaded]
    /\ outcome' = "return"
    /\ call_pc' = "idle"
    /\ UNCHANGED <<artifact, initialized, engine, loader>>
    /\ UNCHANGED others

\* sorted(self.location_classes) for the classes of version v.
SortedClassesOf(v) ==
    IF v = 0 THEN <<>>
    ELSE IF v % 2 = 1 THEN <<"Kharghar", "Vashi">>
    ELSE <<"CBD Belapur", "Kharghar", "Nerul">>

\* Lines 229-230: get_locations() is called; reads self.location_classes.
GetLocationsCall ==
    /\ Enter("get_locations", NoArgs)
    /\ seen' = [location_classes |-> location_classes]
    /\ result' = [kind |-> "partial", locations |-> <<>>]
    /\ outcome' = "none"
    /\ call_pc' = "l231"
    /\ UNCHANGED <<artifact, initialized, engine, loader>>
    /\ UNCHANGED others

\* Lines 231-241: one iteration of the loop (reads self.location_stats),
\* or the return once the loop is over.
GetLocations_l231 ==
    /\ call_pc = "l231"
    /\ call_op = "get_locations"
    /\ LET todo == SortedClassesOf(seen.location_classes)
           done == Len(result.locations)
       IN  IF done < Len(todo)
           THEN /\ result' = [result EXCEPT !.locations =
                                Append(@, [name |-> todo[done + 1],
                                           stats |-> location_stats])]
                /\ seen' = See("location_stats", location_stats)
                /\ UNCHANGED <<call_pc, outcome>>
           ELSE /\ result' = [result EXCEPT !.kind = "return"]
                /\ outcome' = "return"
                /\ call_pc' = "idle"
                /\ UNCHANGED seen
    /\ UNCHANGED <<artifact, initialized, engine, loader, call_op, args,
                   invoked, locals>>
    /\ UNCHANGED others

\* Lines 249-256: get_model_info() builds its dictionary entry by entry.
GetModelInfoCall ==
    /\ Enter("get_model_info", NoArgs)
    /\ seen' = [features |-> features]
    /\ result' = [kind |-> "partial", features |-> features]
    /\ outcome' = "none"
    /\ call_pc' = "l252"
    /\ UNCHANGED <<artifact, initialized, engine, loader>>
    /\ UNCHANGED others

GetModelInfo_l252 ==
    /\ call_pc = "l252"
    /\ seen' = See("feature_importance", feature_importance)
    /\ call_pc' = "l253"
    /\ UNCHANGED <<artifact, initialized, engine, loader, call_op, args,
                   invoked, locals, outcome, result>>
    /\ UNCHANGED others

GetModelInfo_l253 ==
    /\ call_pc = "l253"
    /\ seen' = See("model_metrics", model_metrics)
    /\ call_pc' = "l254"
    /\ UNCHANGED <<artifact, initialized, engine, loader, call_op, args,
                   invoked, locals, outcome, result>>
    /\ UNCHANGED others

GetModelInfo_l254 ==
    /\ call_pc = "l254"
    /\ seen' = See("locations_count", location_classes)
    /\ call_pc' = "l255"
    /\ UNCHANGED <<artifact, initialized, engine, loader, call_op, args,
                   invoked, locals, outcome, result>>
    /\ UNCHANGED others

GetModelInfo_l255 ==
    /\ call_pc = "l255"
    /\ seen' = See("location_classes", location_classes)
    /\ result' = [kind |-> "return",
                  features |-> seen.features,
                  feature_importance |-> seen.feature_importance,
                  metrics |-> seen.model_metrics,
                  locations_count |->
                      Cardinality(ClassesOf(seen.locations_count)),
                  locations |-> location_classes]
    /\ outcome' = "return"
    /\ call_pc' = "idle"
    /\ UNCHANGED <<artifact, initialized, engine, loader, call_op, args,
                   invoked, locals>>
    /\ UNCHANGED others

\* --------------------------------------------------------- specifications
\* Inputs of the lifecycle specification: one nominal prediction.
NominalAreas == {1000}
NominalPredictions == {Rat(100, 1)}
NominalStdDevs == {Rat(6, 1)}

\* Engine lifecycle: loads of any artifact interleaved with the readers.
Next ==
    \/ Construct
    \/ LoadCall(Artifacts)
    \/ Load_l74(Artifacts)
    \/ Load_l76
    \/ Load_l77
    \/ Load_l78
    \/ Load_l79
    \/ Load_l80
    \/ Load_l81
    \/ Load_l82
    \/ Load_l86
    \/ PredictCall(Locations, NominalAreas)
    \/ Predict_l135
    \/ Predict_l142
    \/ Predict_l157
    \/ Predict_l160
    \/ Predict_l163(NominalPredictions)
    \/ Predict_l167(NominalStdDevs)
    \/ Predict_l185
    \/ Predict_l187
    \/ IsLoadedCall
    \/ GetLocationsCall
    \/ GetLocations_l231
    \/ GetModelInfoCall
    \/ GetModelInfo_l252
    \/ GetModelInfo_l253
    \/ GetModelInfo_l254
    \/ GetModelInfo_l255

Spec == Init /\ [][Next]_vars

\* Interval arithmetic: complete bundles only, every listed model output.
CompleteArtifacts == {Complete(v) : v \in 1..MaxVer}

NextCalc ==
    \/ LoadCall(CompleteArtifacts)
    \/ Load_l74(CompleteArtifacts)
    \/ Load_l76
    \/ Load_l77
    \/ Load_l78
    \/ Load_l79
    \/ Load_l80
    \/ Load_l81
    \/ Load_l82
    \/ Load_l86
    \/ PredictCall(Locations, Areas)
    \/ Predict_l135
    \/ Predict_l142
    \/ Predict_l157
    \/ Predict_l160
    \/ Predict_l163(PointPredictions)
    \/ Predict_l167(StdDevs)
    \/ Predict_l185
    \/ Predict_l187

SpecCalc == Init /\ [][NextCalc]_vars

\* ------------------------------------------------- the serving boundary
\* backend/app/schemas/prediction.py, backend/app/api/routes.py and the
\* lifespan of backend/app/main.py.  The route handlers are coroutines
\* without an await, so one request is served at a time and load_model
\* (called by the lifespan only) never overlaps a request.

RequiredFields == {"location", "area_sqft", "bhk", "bathrooms", "floor",
                   "total_floors", "age_of_property"}
PayloadFields == RequiredFields \cup {"parking", "lift"}

\* The constraints of PredictionRequest with area_sqft as a closed interval.
ValidRequestClosedArea(r) ==
    /\ RequiredFields \subseteq r.present
    /\ r.area_sqft >= 100 /\ r.area_sqft <= 10000
    /\ r.bhk >= 1 /\ r.bhk <= 6
    /\ r.bathrooms >= 1 /\ r.bathrooms <= 6
    /\ r.floor >= 0 /\ r.floor <= 100
    /\ r.total_floors >= 1 /\ r.total_floors <= 80
    /\ r.age_of_property >= 0 /\ r.age_of_property <= 50

\* PredictionRequest: required fields (...) and the gt/lt/ge/le constraints.
ValidRequest(r) ==
    /\ RequiredFields \subseteq r.present
    /\ r.area_sqft > 100 /\ r.area_sqft < 10000
    /\ r.bhk >= 1 /\ r.bhk <= 6
    /\ r.bathrooms >= 1 /\ r.bathrooms <= 6
    /\ r.floor >= 0 /\ r.floor <= 100
    /\ r.total_floors >= 1 /\ r.total_floors <= 80
    /\ r.age_of_property >= 0 /\ r.age_of_property <= 50

\* PredictionRequest.normalize_location: v.strip().title().
NormalizeRequest(r) == [r EXCEPT !.location = Title(Strip(@))]

\* The payload of the API tests, and payloads that differ from it in one
\* field (a boundary value, a value out of range, or the field left out).
ValidPayload ==
    [route |-> "predict", present |-> PayloadFields,
     location |-> "Kharghar", area_sqft |-> 1000, bhk |-> 2,
     bathrooms |-> 2, floor |-> 5, total_floors |-> 20,
     age_of_property |-> 5, parking |-> TRUE, lift |-> TRUE]
PayloadLocations ==
    {"Kharghar", " vashi ", "NERUL", "Mumbai", "CBD Belapur", " cbd belapur"}
PredictRequests ==
    {[ValidPayload EXCEPT !.location = l] : l \in PayloadLocations}
    \cup {[ValidPayload EXCEPT !.area_sqft = x] :
             x \in {50, 100, 101, 9999, 10000}}
    \cup {[ValidPayload EXCEPT !.bhk = x] : x \in {0, 1, 6, 7, 10}}
    \cup {[ValidPayload EXCEPT !.bathrooms = x] : x \in {0, 1, 6, 7}}
    \cup {[ValidPayload EXCEPT !.floor = x] : x \in {-1, 0, 100, 101}}
    \cup {[ValidPayload EXCEPT !.total_floors = x] : x \in {0, 1, 80, 81}}
    \cup {[ValidPayload EXCEPT !.age_of_property = x] :
             x \in {-1, 0, 50, 51}}
    \cup {[ValidPayload EXCEPT !.present = PayloadFields \ {f}] :
             f \in PayloadFields}
    \cup {[ValidPayload EXCEPT !.present = {"location", "area_sqft"}]}
Requests ==
    PredictRequests
    \cup {[route |-> r] : r \in {"locations", "model-info", "health"}}

\* main.py lines 32-42: the lifespan calls engine.load_model and swallows
\* whatever it raises.
Startup(Arts) ==
    /\ route_pc = "idle"
    /\ call_pc = "idle"
    /\ LoadCall(Arts)

\* A request arrives; FastAPI validates a /predict body against
\* PredictionRequest before the handler runs and answers 422 itself.
Receive(Reqs) ==
    /\ route_pc = "idle"
    /\ call_pc = "idle"
    /\ load_pc = "idle"
    /\ \E r \in Reqs :
         IF r.route = "predict" /\ ~ValidRequest(r)
         THEN /\ request' = r
              /\ response' = [status |-> 422, detail |-> "validation"]
              /\ route_pc' = "idle"
         ELSE /\ request' =
                    IF r.route = "predict" THEN NormalizeRequest(r) ELSE r
              /\ response' = NoResponse
              /\ route_pc' = "body"
    /\ call_op' = "none" /\ args' = NoArgs /\ seen' = NoSeen
    /\ invoked' = {} /\ locals' = NoLocals
    /\ outcome' = "none" /\ result' = NoResult
    /\ UNCHANGED <<artifact, initialized, engine, loader, call_pc, prep,
                   trainer>>

\* routes.py lines 28-41: health_check.
HealthRoute ==
    /\ route_pc = "body"
    /\ request.route = "health"
    /\ response' = [status |-> 200, model_loaded |-> is_loaded]
    /\ route_pc' = "idle"
    /\ UNCHANGED <<artifact, initialized, engine, loader, reader, request,
                   prep, trainer>>

\* The 503 answer of the three routes that need the model.
Unavailable ==
    /\ response' = [status |-> 503, detail |-> "not loaded"]
    /\ route_pc' = "idle"
    /\ UNCHANGED <<artifact, initialized, engine, loader, reader, request,
                   prep, trainer>>

\* routes.py lines 62-79: predict_price checks engine.is_loaded() and
\* calls engine.predict with the fields of the request.
PredictRoute_l62 ==
    /\ route_pc = "body"
    /\ request.route = "predict"
    /\ call_op = "none"
    /\ IF ~is_loaded
       THEN Unavailable
       ELSE PredictCall({request.location}, {request.area_sqft})

\* A collaborator of predict (DataFrame assembly, scaler.transform,
\* model.predict, staged_predict) raises an exception of some type.
PredictFault(Excs) ==
    /\ call_op = "predict"
    /\ call_pc \in {"l157", "l160", "l163", "l167"}
    /\ \E e \in Excs : Raise(e, call_pc)
    /\ UNCHANGED <<artifact, initialized, engine, loader, call_op, args,
                   seen, invoked, locals, others>>

\* One status for every exception.
StatusCollapsed(e) == 500

\* routes.py lines 82-93: except ValueError -> 400, except Exception -> 500.
StatusOf(e) == IF e = "ValueError" THEN 400 ELSE 500

\* The detail of the error response: str(e) for 400, a fixed text for 500.
DetailOf(e) == IF e = "ValueError" THEN "str(e)" ELSE "generic"

\* routes.py lines 80-93: engine.predict has returned or raised.
PredictRoute_l80 ==
    /\ route_pc = "body"
    /\ request.route = "predict"
    /\ call_op = "predict"
    /\ call_pc = "idle"
    /\ outcome # "none"
    /\ response' =
         IF outcome = "return"
         THEN [status |-> 200, detail |-> "result"]
         ELSE [status |-> StatusOf(outcome), detail |-> DetailOf(outcome)]
    /\ route_pc' = "idle"
    /\ UNCHANGED <<artifact, initialized, engine, loader, reader, request,
                   prep, trainer>>

\* routes.py lines 105-111: get_locations checks is_loaded() and calls
\* engine.get_locations().
LocationsRoute_l105 ==
    /\ route_pc = "body"
    /\ request.route = "locations"
    /\ call_op = "none"
    /\ IF ~is_loaded THEN Unavailable ELSE GetLocationsCall

\* routes.py line 112: the LocationsResponse.
LocationsRoute_l112 ==
    /\ route_pc = "body"
    /\ request.route = "locations"
    /\ call_op = "get_locations"
    /\ outcome = "return"
    /\ response' = [status |-> 200, detail |-> "locations"]
    /\ route_pc' = "idle"
    /\ UNCHANGED <<artifact, initialized, engine, loader, reader, request,
                   prep, trainer>>

\* routes.py lines 125-131: get_model_info checks is_loaded() and calls
\* engine.get_model_info().
ModelInfoRoute_l125 ==
    /\ route_pc = "body"
    /\ request.route = "model-info"
    /\ call_op = "none"
    /\ IF ~is_loaded THEN Unavailable ELSE GetModelInfoCall

\* routes.py line 132: the ModelInfo response.
ModelInfoRoute_l132 ==
    /\ route_pc = "body"
    /\ request.route = "model-info"
    /\ call_op = "get_model_info"
    /\ outcome = "return"
    /\ response' = [status |-> 200, detail |-> "model-info"]
    /\ route_pc' = "idle"
    /\ UNCHANGED <<artifact, initialized, engine, loader, reader, request,
                   prep, trainer>>

\* Exception types a collaborator can raise.
FaultTypes == {"ValueError", "TypeError", "KeyError"}

\* The artifacts the application is started on: none, complete ones, and
\* bundles that lack one required key.
StartupArtifacts ==
    {Absent, Lacking(1, "model"), Lacking(1, "scaler")}
        \cup {Complete(v) : v \in 1..MaxVer}

\* The application: lifespan loads, then requests served one at a time.
NextApi ==
    \/ Startup(StartupArtifacts)
    \/ Load_l74(StartupArtifacts)
    \/ Load_l76
    \/ Load_l77
    \/ Load_l78
    \/ Load_l79
    \/ Load_l80
    \/ Load_l81
    \/ Load_l82
    \/ Load_l86
    \/ Receive(Requests)
    \/ HealthRoute
    \/ PredictRoute_l62
    \/ Predict_l135
    \/ Predict_l142
    \/ Predict_l157
    \/ Predict_l160
    \/ Predict_l163(NominalPredictions)
    \/ Predict_l167(NominalStdDevs)
    \/ Predict_l185
    \/ Predict_l187
    \/ PredictFault(FaultTypes)
    \/ PredictRoute_l80
    \/ LocationsRoute_l105
    \/ GetLocations_l231
    \/ LocationsRoute_l112
    \/ ModelInfoRoute_l125
    \/ GetModelInfo_l252
    \/ GetModelInfo_l253
    \/ GetModelInfo_l254
    \/ GetModelInfo_l255
    \/ ModelInfoRoute_l132

SpecApi == Init /\ [][NextApi]_vars

\* ------------------------------------------------------- field cleaners
\* backend/app/ml/preprocessing.py lines 15-161.  A Python value is a
\* record tagged with its type; a float is an exact rational, or one of
\* the tags "nan" and "inf".
NoneV == [t |-> "None"]
NaNV == [t |-> "nan"]
InfV(neg) == [t |-> "inf", neg |-> neg]
IntV(i) == [t |-> "int", i |-> i]
FloatV(q) == [t |-> "float", q |-> q]
StrV(str) == [t |-> "str", s |-> str]
BoolV(b) == [t |-> "bool", b |-> b]
Raised(exc) == [t |-> "raise", exc |-> exc]

\* pd.isna of a scalar: None and float NaN.
IsNa(x) == x.t \in {"None", "nan"}

DigitChars == "0123456789"
IsDigit(c) == \E i \in 1..Len(DigitChars) : Ch(DigitChars, i) = c
DigitVal(c) == (CHOOSE i \in 1..Len(DigitChars) : Ch(DigitChars, i) = c) - 1

\* str(n) of a non-negative int, then of any int.
RECURSIVE NatStr(_)
NatStr(n) ==
    IF n < 10 THEN Ch(DigitChars, n + 1)
    ELSE NatStr(n \div 10) \o Ch(DigitChars, (n % 10) + 1)
IntStr(n) == IF n < 0 THEN "-" \o NatStr(-n) ELSE NatStr(n)

\* str(x) of a float with at most one decimal place: "2.0", "6.9", "-0.5".
FloatStr(q) ==
    LET a == Abs(q[1])
    IN  (IF q[1] < 0 THEN "-" ELSE "")
            \o NatStr(a \div q[2]) \o "."
            \o NatStr(((a * 10) \div q[2]) % 10)

\* str(x).
PyStr(x) ==
    CASE x.t = "str" -> x.s
      [] x.t = "int" -> IntStr(x.i)
      [] x.t = "float" -> FloatStr(x.q)
      [] x.t = "inf" -> IF x.neg THEN "-inf" ELSE "inf"
      [] x.t = "nan" -> "nan"
      [] x.t = "bool" -> IF x.b THEN "True" ELSE "False"
      [] x.t = "None" -> "None"

\* The characters of s that are not in the set drop (re.sub of a character
\* class by "").
RECURSIVE RemoveChars(_, _)
RemoveChars(s, drop) ==
    IF s = "" THEN ""
    ELSE (IF Head(s) \in drop THEN "" ELSE Head(s))
             \o RemoveChars(Tail(s), drop)

\* s.replace(sub, ""): occurrences removed left to right.
RECURSIVE RemoveSubFrom(_, _, _)
RemoveSubFrom(s, sub, i) ==
    IF i > Len(s) THEN ""
    ELSE IF i + Len(sub) - 1 <= Len(s)
            /\ SubSeq(s, i, i + Len(sub) - 1) = sub
         THEN RemoveSubFrom(s, sub, i + Len(sub))
         ELSE Ch(s, i) \o RemoveSubFrom(s, sub, i + 1)
RemoveSub(s, sub) == RemoveSubFrom(s, sub, 1)

\* Position of the first c in s, 0 when there is none.
FirstIndex(s, c) ==
    IF \E i \in 1..Len(s) : Ch(s, i) = c
    THEN CHOOSE i \in 1..Len(s) :
             Ch(s, i) = c /\ \A j \in 1..(i - 1) : Ch(s, j) # c
    ELSE 0

\* A run of digits as float() and int() accept it: single underscores are
\* allowed between digits.
DigitRun(s) ==
    /\ s # ""
    /\ \A i \in 1..Len(s) : IsDigit(Ch(s, i)) \/ Ch(s, i) = "_"
    /\ IsDigit(Ch(s, 1)) /\ IsDigit(Ch(s, Len(s)))
    /\ \A i \in 1..(Len(s) - 1) : ~(Ch(s, i) = "_" /\ Ch(s, i + 1) = "_")
RECURSIVE NatOfFirst(_, _)
NatOfFirst(s, n) ==
    IF n = 0 THEN 0
    ELSE IF Ch(s, n) = "_" THEN NatOfFirst(s, n - 1)
    ELSE NatOfFirst(s, n - 1) * 10 + DigitVal(Ch(s, n))
NatOf(s) == NatOfFirst(s, Len(s))
RECURSIVE Pow10(_)
Pow10(k) == IF k = 0 THEN 1 ELSE 10 * Pow10(k - 1)

\* Largest decimal exponent of a finite double (sys.float_info.max_10_exp).
MaxExp10 == 308

\* float(s): surrounding whitespace, a sign, then inf, infinity or nan in
\* any case, or digits with an optional point and an optional exponent.
\* The result is [k |-> "err"] for ValueError.
ParseLower(low, neg) ==
    LET e == FirstIndex(low, "e")
        mant == IF e = 0 THEN low ELSE SubSeq(low, 1, e - 1)
        expo == IF e = 0 THEN "" ELSE SubSeq(low, e + 1, Len(low))
        esign == expo # "" /\ Head(expo) \in {"+", "-"}
        edigits == IF esign THEN Tail(expo) ELSE expo
        dot == FirstIndex(mant, ".")
        ip == IF dot = 0 THEN mant ELSE SubSeq(mant, 1, dot - 1)
        fp == IF dot = 0 THEN "" ELSE SubSeq(mant, dot + 1, Len(mant))
        mantOK == /\ ip # "" \/ fp # ""
                  /\ ip = "" \/ DigitRun(ip)
                  /\ fp = "" \/ DigitRun(fp)
        expOK == e = 0 \/ DigitRun(edigits)
        ex == IF e = 0 THEN 0
              ELSE IF esign /\ Head(expo) = "-" THEN 0 - NatOf(edigits)
              ELSE NatOf(edigits)
        fdigits == Len(RemoveChars(fp, {"_"}))
        m == Rat(NatOf(ip) * Pow10(fdigits) + NatOf(fp), Pow10(fdigits))
        sgn(q) == IF neg THEN Rat(0 - q[1], q[2]) ELSE q
    IN  IF low \in {"inf", "infinity"} THEN [k |-> "inf", neg |-> neg]
        ELSE IF low = "nan" THEN [k |-> "nan"]
        ELSE IF ~(mantOK /\ expOK) THEN [k |-> "err"]
        ELSE IF m[1] = 0 \/ ex < 0 - MaxExp10 - 20
             THEN [k |-> "fin", v |-> Rat(0, 1)]
        ELSE IF ex > MaxExp10 THEN [k |-> "inf", neg |-> neg]
        ELSE IF ex >= 0 THEN [k |-> "fin", v |-> sgn(RMul(m, Rat(Pow10(ex), 1)))]
        ELSE [k |-> "fin", v |-> sgn(RDiv(m, Rat(Pow10(0 - ex), 1)))]
ParseFloat(s0) ==
    Bind(Strip(s0), LAMBDA s :
        IF s = "" THEN [k |-> "err"]
        ELSE Bind(Lower(IF Head(s) \in {"+", "-"} THEN Tail(s) ELSE s),
                  LAMBDA low : ParseLower(low, Head(s) = "-")))

\* int(x) of a float: truncation toward zero.
Trunc(q) == IF q[1] < 0 THEN 0 - ((0 - q[1]) \div q[2]) ELSE q[1] \div q[2]

\* int(float(s)) followed by the inclusive range test of clean_bhk and
\* clean_floor; "except ValueError" catches the ValueError of float(s) and
\* of int(nan) but not the OverflowError of int(inf).
IntInRange(s, lo, hi) ==
    Bind(ParseFloat(s), LAMBDA f :
        CASE f.k = "err" -> NoneV
          [] f.k = "nan" -> NoneV
          [] f.k = "inf" -> Raised("OverflowError")
          [] f.k = "fin" ->
               IF lo <= Trunc(f.v) /\ Trunc(f.v) <= hi
               THEN IntV(Trunc(f.v))
               ELSE NoneV)

\* Lines 18-33.
VALID_LOCATIONS ==
    {"Airoli", "Belapur", "CBD Belapur", "Ghansoli", "Kharghar",
     "Kopar Khairane", "Nerul", "Panvel", "Sanpada", "Ulwe", "Vashi",
     "Juinagar", "Rabale", "Taloja"}

\* Lines 36-51.
LOCATION_ALIASES ==
    "airoli" :> "Airoli" @@ "belapur" :> "Belapur"
    @@ "cbd belapur" :> "CBD Belapur" @@ "ghansoli" :> "Ghansoli"
    @@ "kharghar" :> "Kharghar" @@ "kopar khairane" :> "Kopar Khairane"
    @@ "nerul" :> "Nerul" @@ "panvel" :> "Panvel"
    @@ "sanpada" :> "Sanpada" @@ "ulwe" :> "Ulwe" @@ "vashi" :> "Vashi"
    @@ "juinagar" :> "Juinagar" @@ "rabale" :> "Rabale"
    @@ "taloja" :> "Taloja"

\* LOCATION_ALIASES.get(key, None).
AliasGet(key) ==
    IF key \in DOMAIN LOCATION_ALIASES
    THEN StrV(LOCATION_ALIASES[key])
    ELSE NoneV

\* normalize_location without the lower-casing.
normalize_location_CaseSensitive(location) ==
    Bind(IF IsNa(location) THEN "" ELSE Strip(PyStr(location)),
         LAMBDA stripped :
             IF stripped = "" THEN NoneV ELSE AliasGet(stripped))

\* Lines 54-67.
normalize_location(location) ==
    Bind(IF IsNa(location) THEN "" ELSE Strip(PyStr(location)),
         LAMBDA stripped :
             IF stripped = "" THEN NoneV
             ELSE Bind(Lower(stripped), LAMBDA cleaned_str :
                      AliasGet(cleaned_str)))

\* Line 86: the character class [₹,INR\s].
PriceDropped == {"₹", ",", "I", "N", "R", " ", "\t", "\n", "\r", "\f"}

\* Lines 70-94.
clean_price(price_val) ==
    IF IsNa(price_val) THEN NoneV
    ELSE Bind(Strip(PyStr(price_val)), LAMBDA stripped :
         Bind(RemoveChars(stripped, PriceDropped), LAMBDA price_str :
         Bind(ParseFloat(price_str), LAMBDA f :
             CASE f.k = "err" -> NoneV
               [] f.k = "nan" -> NaNV
               [] f.k = "inf" -> IF f.neg THEN NoneV ELSE InfV(FALSE)
               [] f.k = "fin" ->
                    IF RLe(f.v, Rat(0, 1)) THEN NoneV ELSE FloatV(f.v))))

\* Lines 97-119.
clean_bhk(bhk_val) ==
    IF IsNa(bhk_val) THEN NoneV
    ELSE Bind(Strip(PyStr(bhk_val)), LAMBDA stripped :
         Bind(Upper(stripped), LAMBDA upper :
         Bind(RemoveSub(upper, "BHK"), LAMBDA removed :
         Bind(Strip(removed), LAMBDA bhk_str :
             IntInRange(bhk_str, 1, 6)))))

\* Lines 122-142.
clean_floor(floor_val) ==
    IF IsNa(floor_val) THEN NoneV
    ELSE Bind(Strip(PyStr(floor_val)), LAMBDA stripped :
         Bind(Lower(stripped), LAMBDA floor_str :
             IF floor_str = "ground" THEN IntV(0)
             ELSE IntInRange(floor_str, 0, 100)))

\* clean_yes_no without the strip.
clean_yes_no_Unstripped(val) ==
    IF IsNa(val) THEN NoneV
    ELSE Bind(Lower(PyStr(val)), LAMBDA cleaned_str :
             IF cleaned_str \in {"yes", "y", "1", "true"} THEN IntV(1)
             ELSE IF cleaned_str \in {"no", "n", "0", "false"} THEN IntV(0)
             ELSE NoneV)

\* Lines 145-161.
clean_yes_no(val) ==
    IF IsNa(val) THEN NoneV
    ELSE Bind(Strip(PyStr(val)), LAMBDA stripped :
         Bind(Lower(stripped), LAMBDA cleaned_str :
             IF cleaned_str \in {"yes", "y", "1", "true"} THEN IntV(1)
             ELSE IF cleaned_str \in {"no", "n", "0", "false"} THEN IntV(0)
             ELSE NoneV))

\* ------------------------------------------------------ cleaner inputs
\* Spellings of a word: as given, upper case, title case, and with the
\* case alternating from letter to letter.
RECURSIVE Alternating(_, _)
Alternating(s, up) ==
    IF s = "" THEN ""
    ELSE (IF up THEN UpperCh(Head(s)) ELSE LowerCh(Head(s)))
             \o Alternating(Tail(s), ~up)
Spellings(w) == {w, Upper(w), Title(w), Alternating(w, FALSE)}
Pads == {"", " ", "\t"}
Padded(words) == {l \o w \o r : l \in Pads, w \in words, r \in Pads}

MissingValues == {NoneV, NaNV}
OtherLocations ==
    {"Mumbai", "", " ", "cbd  belapur", "cbdbelapur", "Navi Mumbai",
     "kharghar!", "nan", "None", "vash"}
LocationValues ==
    MissingValues
    \cup {StrV(w) :
            w \in Padded(UNION {Spellings(a) : a \in DOMAIN LOCATION_ALIASES})}
    \cup {StrV(w) : w \in VALID_LOCATIONS \cup OtherLocations}
    \cup {IntV(400614), FloatV(Rat(1, 2))}

\* A positive price written plain, with a leading currency symbol, with
\* thousands commas, and with a trailing currency code.
RECURSIVE GroupedFrom(_, _)
GroupedFrom(digits, i) ==
    IF i > Len(digits) THEN ""
    ELSE Ch(digits, i)
             \o (IF i < Len(digits) /\ (Len(digits) - i) % 3 = 0
                 THEN "," ELSE "")
             \o GroupedFrom(digits, i + 1)
Grouped(digits) == GroupedFrom(digits, 1)
CurrencySymbols == {"₹", "$"}
CurrencyCodes == {"INR", "USD", "Rs", "inr"}
Prices == {1, 999, 1000, 15000000, 24426717}
Written(v) ==
    {IntStr(v), Grouped(IntStr(v))}
    \cup {c \o IntStr(v) : c \in CurrencySymbols}
    \cup {c \o Grouped(IntStr(v)) : c \in CurrencySymbols}
    \cup {IntStr(v) \o " " \o c : c \in CurrencyCodes}
    \cup {IntStr(v) \o c : c \in CurrencyCodes}
PriceValues ==
    MissingValues
    \cup {StrV(w) : w \in UNION {Written(v) : v \in Prices}}
    \cup {IntV(v) : v \in Prices \cup {0, -1000, -15000000}}
    \cup {FloatV(Rat(v, 1)) : v \in Prices \cup {0, -1}}
    \cup {FloatV(Rat(5, 2)), FloatV(Rat(-1, 2)), InfV(FALSE), InfV(TRUE)}
    \cup {StrV(w) : w \in {"0", "-1000", "0.0", "-0.5", "2.5", "1e3", "",
                           " ", "abc", "N/A", "nan", "NaN", "inf", "-inf",
                           "Infinity", "1e400", "1_000", "12 34", "₹"}}

\* Numbers and spellings around the range bounds of clean_bhk and
\* clean_floor.
Tenths == {-5, 0, 5, 9, 10, 25, 60, 69, 70, 1000, 1009, 1010}
CountValues ==
    MissingValues
    \cup {IntV(i) : i \in (-1..7) \cup {10, 99, 100, 101, 200}}
    \cup {FloatV(Rat(k, 10)) : k \in Tenths}
    \cup {InfV(FALSE), InfV(TRUE)}
    \cup {StrV(IntStr(i)) : i \in (-1..7) \cup {10, 100, 101}}
    \cup {StrV(FloatStr(Rat(k, 10))) : k \in Tenths}
    \cup {StrV(w) : w \in {"2BHK", "3BHK", " 2 bhk ", "2 BHK", "7BHK",
                           "0BHK", "BHK", "6.9BHK", "Ground", "ground",
                           "GROUND ", "ground floor", "G", "", " ", "abc",
                           "inf", "-inf", "Infinity", "nan", "NaN", "1e400",
                           "1e2", "5e-1", "1_0", "+3", " 4 ", "3.", ".5",
                           "1.2.3", "--1"}}

YesNoTokens == {"yes", "y", "1", "true", "no", "n", "0", "false"}
YesNoValues ==
    MissingValues
    \cup {StrV(w) : w \in Padded(UNION {Spellings(k) : k \in YesNoTokens})}
    \cup {StrV(w) : w \in {"", " ", "maybe", "yess", "ye s", "2", "1.0",
                           "on", "off", "t", "f", "nan", "None"}}
    \cup {IntV(0), IntV(1), IntV(2), BoolV(TRUE), BoolV(FALSE),
          FloatV(Rat(1, 1))}

\* One call of a pure function of the module: the argument and what the
\* call gave.  A behaviour makes one call, from the state in which none has
\* been made.
Cleaning(name, v, out) ==
    /\ fn' = name
    /\ raw' = v
    /\ cleaned' = out
    /\ UNCHANGED <<artifact, initialized, engine, loader, reader, http,
                   trainer>>

Call_normalize_location(Vals) ==
    /\ fn = "none"
    /\ \E v \in Vals :
         Cleaning("normalize_location", v, normalize_location(v))
Call_clean_price(Vals) ==
    /\ fn = "none"
    /\ \E v \in Vals :
         Cleaning("clean_price", v, clean_price(v))
Call_clean_bhk(Vals) ==
    /\ fn = "none"
    /\ \E v \in Vals :
         Cleaning("clean_bhk", v, clean_bhk(v))
Call_clean_floor(Vals) ==
    /\ fn = "none"
    /\ \E v \in Vals :
         Cleaning("clean_floor", v, clean_floor(v))
Call_clean_yes_no(Vals) ==
    /\ fn = "none"
    /\ \E v \in Vals :
         Cleaning("clean_yes_no", v, clean_yes_no(v))

NextClean ==
    \/ Call_normalize_location(LocationValues)
    \/ Call_clean_price(PriceValues)
    \/ Call_clean_bhk(CountValues)
    \/ Call_clean_floor(CountValues)
    \/ Call_clean_yes_no(YesNoValues)

SpecClean == Init /\ [][NextClean]_vars

\* --------------------------------------------------- preprocess_dataset
\* backend/app/ml/preprocessing.py lines 164-275.  A frame is a sequence of
\* rows, a row a record of cells, a cell a Python value; a float64 cell is
\* FloatV(q), NaNV or InfV(neg).

\* pd.to_numeric(x, errors="coerce") of one cell.
ToNumeric(x) ==
    CASE x.t = "int" -> FloatV(Rat(x.i, 1))
      [] x.t = "float" -> x
      [] x.t = "inf" -> x
      [] x.t = "bool" -> FloatV(Rat(IF x.b THEN 1 ELSE 0, 1))
      [] x.t \in {"None", "nan"} -> NaNV
      [] x.t = "str" ->
           LET f == ParseFloat(x.s)
           IN  CASE f.k = "fin" -> FloatV(f.v)
                 [] f.k = "inf" -> InfV(f.neg)
                 [] OTHER -> NaNV

\* The float64 cell of an Optional[int] returned by a cleaner.
AsFloat(x) == IF x.t = "int" THEN FloatV(Rat(x.i, 1)) ELSE NaNV

\* Series.clip(lo, hi) of one cell: NaN stays NaN.
Clip(x, lo, hi) ==
    CASE x.t = "nan" -> x
      [] x.t = "inf" -> FloatV(Rat(IF x.neg THEN lo ELSE hi, 1))
      [] x.t = "float" ->
           IF RLt(x.q, Rat(lo, 1)) THEN FloatV(Rat(lo, 1))
           ELSE IF RLt(Rat(hi, 1), x.q) THEN FloatV(Rat(hi, 1))
           ELSE x

Col(df, c) == <<>> \o [i \in 1..Len(df) |-> df[i][c]]
Present(col) == SelectSeq(col, LAMBDA x : x.t = "float")

\* The k-th smallest (k from 1) of a non-empty sequence of float cells.
KthSmallest(col, k) ==
    LET v == CHOOSE x \in {col[i] : i \in 1..Len(col)} :
                 /\ Cardinality({j \in 1..Len(col) : RLt(col[j].q, x.q)}) < k
                 /\ Cardinality({j \in 1..Len(col) : RLe(col[j].q, x.q)}) >= k
    IN  v.q

\* Series.median(): NaN of an empty or all-missing column, else the middle
\* value or the mean of the two middle values.
Median(col) ==
    Bind(Present(col), LAMBDA vals :
        LET n == Len(vals)
        IN  IF n = 0 THEN NaNV
            ELSE IF n % 2 = 1 THEN FloatV(KthSmallest(vals, (n + 1) \div 2))
            ELSE FloatV(RDiv(RAdd(KthSmallest(vals, n \div 2),
                                  KthSmallest(vals, n \div 2 + 1)),
                             Rat(2, 1))))

\* Series.fillna(value): fillna(NaN) changes nothing.
Fillna(col, value) ==
    [i \in 1..Len(col) |-> IF col[i].t = "nan" THEN value ELSE col[i]]

\* Series.astype(int): truncation; a NaN cell makes it raise.
CanCastInt(col) == \A i \in 1..Len(col) : col[i].t = "float"

\* Series.quantile(q) with linear interpolation, on a column of finite
\* floats; NaN of an empty column.
Quantile(col, q) ==
    LET n == Len(col)
        h == RMul(Rat(n - 1, 1), q)
        lo == h[1] \div h[2]
        g == RSub(h, Rat(lo, 1))
        a == KthSmallest(col, lo + 1)
        b == IF lo + 2 <= n THEN KthSmallest(col, lo + 2) ELSE a
    IN  IF n = 0 THEN NaNV
        ELSE FloatV(RAdd(a, RMul(RSub(b, a), g)))

\* Lines 252-256: price_per_sqft > 2000 and < 50000.
PerSqftKept(price, area) ==
    /\ RLt(Rat(2000, 1), RDiv(price, area))
    /\ RLt(RDiv(price, area), Rat(50000, 1))

\* The column c of df with f applied to every cell, then with every cell.
Mapped(col, f(_)) == <<>> \o [i \in 1..Len(col) |-> f(col[i])]
Applied(df, c, f(_)) == <<>> \o [i \in 1..Len(df) |-> f(df[i][c])]
Assigned(df, c, f(_)) ==
    <<>> \o [i \in 1..Len(df) |-> [df[i] EXCEPT ![c] = f(df[i][c])]]

\* Lines 188-191: location cleaned, rows without one dropped.
Step_location(df) ==
    Bind(Assigned(df, "location", normalize_location), LAMBDA d :
        SelectSeq(d, LAMBDA r : ~IsNa(r.location)))

\* Lines 194-197: area_sqft numeric, strictly between 100 and 10000.
Step_area(df) ==
    Bind(Assigned(df, "area_sqft", ToNumeric), LAMBDA d :
        SelectSeq(d, LAMBDA r : /\ r.area_sqft.t = "float"
                                /\ RLt(Rat(100, 1), r.area_sqft.q)
                                /\ RLt(r.area_sqft.q, Rat(10000, 1))))

\* Lines 200-202: price cleaned, rows without one dropped.
Step_price(df) ==
    Bind(Assigned(df, "actual_price", clean_price), LAMBDA d :
        SelectSeq(d, LAMBDA r : ~IsNa(r.actual_price)))

\* Lines 205-209 and 218-220: a column cleaned by clean_bhk or clean_floor,
\* as float64 before the median is filled in.
CleanedCount(df, c) ==
    IF c = "bhk" THEN Applied(df, c, clean_bhk)
    ELSE Applied(df, c, clean_floor)
Raises(col) == \E i \in 1..Len(col) : col[i].t = "raise"
ImputedCount(col) ==
    Bind(Mapped(col, AsFloat), LAMBDA floats :
        Bind(Median(floats), LAMBDA median : Fillna(floats, median)))

\* Lines 212-215, 223-226 and 229-232: a column made numeric, clipped and
\* filled with its median.
ImputedClipped(df, c, lo, hi) ==
    Bind(Applied(df, c, LAMBDA x : Clip(ToNumeric(x), lo, hi)), LAMBDA col :
        Bind(Median(col), LAMBDA median : Fillna(col, median)))

\* Lines 235-239: parking and lift, missing read as 0.
YesNoColumn(df, c) ==
    Applied(df, c, LAMBDA v : Bind(clean_yes_no(v), LAMBDA x :
                                  IF IsNa(x) THEN IntV(0) ELSE x))

\* Lines 242-245: prices between the 1st and the 99th percentile.
Step_outliers(df) ==
    Bind(Mapped(Col(df, "actual_price"), LAMBDA x : x), LAMBDA prices :
    Bind(Quantile(prices, Rat(1, 100)), LAMBDA q1 :
    Bind(Quantile(prices, Rat(99, 100)), LAMBDA q99 :
        SelectSeq(df, LAMBDA r : /\ RLe(q1.q, r.actual_price.q)
                                 /\ RLe(r.actual_price.q, q99.q)))))

\* Lines 249-259: the price-per-sqft filter; the helper column is dropped.
Step_per_sqft(df) ==
    SelectSeq(df, LAMBDA r : PerSqftKept(r.actual_price.q, r.area_sqft.q))

\* Lines 264-267: the stats of the cleaned frame.
StatsOf(original, df) ==
    [original_rows |-> Len(original),
     cleaned_rows |-> Len(df),
     rows_removed |-> Len(original) - Len(df),
     locations |-> {df[i].location.s : i \in 1..Len(df)},
     location_counts |->
         [l \in {df[i].location.s : i \in 1..Len(df)} |->
             Cardinality({i \in 1..Len(df) : df[i].location.s = l})]]

\* Lines 204-239 on the rows that passed the first three filters, the
\* cleaned bhk and floor columns being given; the first statement that
\* raises ends the call.
Impute(kept, bhk_cleaned, floor_cleaned) ==
    Bind(ImputedCount(bhk_cleaned), LAMBDA bhk :
    Bind(ImputedClipped(kept, "bathrooms", 1, 6), LAMBDA bathrooms :
    Bind(ImputedCount(floor_cleaned), LAMBDA floor :
    Bind(ImputedClipped(kept, "total_floors", 1, 80), LAMBDA total_floors :
    Bind(ImputedClipped(kept, "age_of_property", 0, 50), LAMBDA age :
    Bind(YesNoColumn(kept, "parking"), LAMBDA parking :
    Bind(YesNoColumn(kept, "lift"), LAMBDA lift :
        IF Raises(bhk_cleaned) THEN Raised("OverflowError")
        ELSE IF ~CanCastInt(bhk) THEN Raised("TypeError")
        ELSE IF ~CanCastInt(bathrooms) THEN Raised("IntCastingNaNError")
        ELSE IF Raises(floor_cleaned) THEN Raised("OverflowError")
        ELSE IF ~CanCastInt(floor) THEN Raised("TypeError")
        ELSE IF ~CanCastInt(total_floors) THEN Raised("IntCastingNaNError")
        ELSE [t |-> "frame",
              rows |-> <<>> \o
                [i \in 1..Len(kept) |->
                    [kept[i] EXCEPT
                        !.bhk = IntV(Trunc(bhk[i].q)),
                        !.bathrooms = IntV(Trunc(bathrooms[i].q)),
                        !.floor = IntV(Trunc(floor[i].q)),
                        !.total_floors = IntV(Trunc(total_floors[i].q)),
                        !.age_of_property = age[i],
                        !.parking = parking[i],
                        !.lift = lift[i]]]])))))))

\* Lines 164-275.  The rows that passed the first three filters and the
\* frame after step 9 are kept in the result as "kept" and "imputed".
preprocess_dataset(df) ==
    Bind(Step_price(Step_area(Step_location(df))), LAMBDA kept :
    Bind(CleanedCount(kept, "bhk"), LAMBDA bhk_cleaned :
    Bind(CleanedCount(kept, "floor"), LAMBDA floor_cleaned :
    Bind(Impute(kept, bhk_cleaned, floor_cleaned), LAMBDA imputed :
        IF imputed.t = "raise" THEN imputed
        ELSE
    Bind(Step_per_sqft(Step_outliers(imputed.rows)), LAMBDA out :
        [t |-> "frame", kept |-> kept, imputed |-> imputed.rows,
         rows |-> out, stats |-> StatsOf(df, out)])))))

\* Raw rows: the first is clean; each other one differs from it in the
\* fields shown.
CleanRow ==
    [location |-> StrV("Kharghar"), area_sqft |-> IntV(200),
     actual_price |-> IntV(1000000), bhk |-> IntV(2),
     bathrooms |-> IntV(2), floor |-> IntV(5), total_floors |-> IntV(20),
     age_of_property |-> IntV(5), parking |-> StrV("Yes"),
     lift |-> StrV("No")]
RawRows ==
    {CleanRow,
     [CleanRow EXCEPT !.location = StrV(" vashi "),
                      !.actual_price = StrV("2000000 INR"),
                      !.bhk = StrV("3BHK"), !.floor = StrV("Ground"),
                      !.parking = NoneV],
     [CleanRow EXCEPT !.location = StrV("Mumbai")],
     [CleanRow EXCEPT !.area_sqft = IntV(100)],
     [CleanRow EXCEPT !.actual_price = StrV("₹400000")],
     [CleanRow EXCEPT !.actual_price = IntV(10000000)],
     [CleanRow EXCEPT !.actual_price = IntV(-1000)],
     [CleanRow EXCEPT !.bhk = StrV("studio"), !.floor = IntV(200)],
     [CleanRow EXCEPT !.bathrooms = IntV(9), !.total_floors = IntV(0),
                      !.age_of_property = IntV(60)],
     [CleanRow EXCEPT !.bathrooms = StrV("two"),
                      !.total_floors = StrV("x"), !.lift = StrV("maybe")],
     [CleanRow EXCEPT !.age_of_property = StrV("new")],
     [CleanRow EXCEPT !.bhk = StrV("inf")]}

\* Raw datasets of one to MaxRows rows.
Datasets == UNION {[1..n -> RawRows] : n \in 1..MaxRows}

Call_preprocess_dataset(Frames) ==
    /\ fn = "none"
    /\ \E df \in Frames :
         Cleaning("preprocess_dataset", [t |-> "dataset", rows |-> df],
                 preprocess_dataset(df))

NextPrep ==
    \/ Call_preprocess_dataset(Datasets)

SpecPrep == Init /\ [][NextPrep]_vars

\* ------------------------------------------------------------- trainer
\* backend/app/ml/train.py lines 164-181: the bundle is written by
\* joblib.dump straight to the path that load_model reads.  The trainer
\* and the serving process are two processes sharing that file.

\* Line 181, joblib.dump opens model_path for writing: the file is
\* truncated and holds the beginning of the bundle of the next version.
Train_l181_open ==
    /\ train_pc = "idle"
    /\ file.ver < MaxVer
    /\ file' = Partial(file.ver + 1)
    /\ train_pc' = "writing"
    /\ UNCHANGED <<artifact, initialized, engine, loader, reader, http, prep>>

\* Line 181, joblib.dump has written the whole stream and closed the file.
Train_l181_close ==
    /\ train_pc = "writing"
    /\ file' = Complete(file.ver)
    /\ train_pc' = "idle"
    /\ UNCHANGED <<artifact, initialized, engine, loader, reader, http, prep>>

\* The training process is killed, or the disk fills, during the write.
Train_interrupted ==
    /\ train_pc = "writing"
    /\ train_pc' = "idle"
    /\ UNCHANGED <<artifact, initialized, engine, loader, reader, http, prep,
                   file>>

\* load_model runs in the serving process at any time and finds the file
\* as the trainer has left it.
NextTrain ==
    \/ Train_l181_open
    \/ Train_l181_close
    \/ Train_interrupted
    \/ LoadCall({file})
    \/ Load_l74({file})
    \/ Load_l76
    \/ Load_l77
    \/ Load_l78
    \/ Load_l79
    \/ Load_l80
    \/ Load_l81
    \/ Load_l82
    \/ Load_l86

SpecTrain == Init /\ [][NextTrain]_vars

\* ================================================================ claims
LoadFinished == load_pc = "idle" /\ load_outcome # "none"
PredictFinished == call_op = "predict" /\ outcome # "none"
PredictReturned == call_op = "predict" /\ outcome = "return"

\* C1: load is all-or-nothing.  When load_model has returned, every engine
\* field comes from the artifact it loaded; when it has raised and no load
\* has succeeded before, the engine is still Unloaded (is_loaded() false).
C1_LoadAllOrNothing ==
    LoadFinished =>
        IF load_outcome = "ok"
        THEN /\ model = bundle.ver /\ scaler = bundle.ver
             /\ label_encoder = bundle.ver /\ features = bundle.ver
             /\ location_classes = bundle.ver
             /\ location_stats = bundle.ver
             /\ model_metrics = [train |-> bundle.ver, test |-> bundle.ver]
             /\ feature_importance = bundle.ver
        ELSE ~ever_loaded => ~is_loaded

\* C2: reload is a single atomic swap.  A predict call that returns has
\* read model, scaler, label_encoder, features and location_classes of one
\* and the same bundle, also when complete bundles are reloaded meanwhile.
C2_ReloadAtomicSwap ==
    PredictReturned =>
        /\ seen.label_encoder = seen.location_classes
        /\ seen.features = seen.location_classes
        /\ seen.scaler = seen.location_classes
        /\ seen.model = seen.location_classes
        /\ seen.model_staged = seen.location_classes

\* C3: load_model raises FileNotFoundError when the artifact is absent and
\* RuntimeError when the artifact exists but lacks one of the nine required
\* keys; a load of an artifact lacking a required key never succeeds.
C3_LoadErrorKinds ==
    LoadFinished =>
        IF ~artifact.exists
        THEN load_outcome = "FileNotFoundError"
        ELSE artifact.keys # BundleKeys => load_outcome = "RuntimeError"

\* C4: the lifecycle is one-way.  No step of any operation (construction,
\* load_model whether it succeeds or fails, predict, get_locations,
\* get_model_info) takes is_loaded() from true to false.
C4_LifecycleOneWay == [][is_loaded => is_loaded']_vars

\* C4 witness: a reload has failed on an engine that was loaded before, and
\* the engine is still loaded.
C4_Witness ==
    /\ ever_loaded /\ is_loaded
    /\ load_pc = "idle" /\ load_outcome \in {"FileNotFoundError", "KeyError"}

\* C5: predict on an engine for which no load has succeeded always fails
\* with the not-ready RuntimeError and with no other error.
C5_UnloadedPredictNotReady ==
    (PredictFinished /\ ~ever_loaded) => outcome = "RuntimeError"

\* C6: on a loaded engine the location check of predict rejects exactly the
\* locations that are not equal to a member of location_classes, with
\* ValueError raised before the encoder, the scaler or the model is invoked
\* and without falling back to another location; a member passes the check.
C6_LocationChecked ==
    call_op = "predict" /\ "location_classes" \in DOMAIN seen
C6_Rejected ==
    outcome = "ValueError" /\ result = [kind |-> "raise", at |-> "l136"]
C6_LocationCheck ==
    C6_LocationChecked =>
        IF args.location \in ClassesOf(seen.location_classes)
        THEN ~C6_Rejected
        ELSE C6_Rejected /\ invoked = {} /\ call_pc = "idle"

\* C6 witness: a loaded bundle knows "Vashi" and the call passing the
\* spelling "vashi" has been rejected by the check.
C6_Witness ==
    /\ C6_LocationChecked /\ C6_Rejected
    /\ args.location = "vashi"
    /\ "Vashi" \in ClassesOf(seen.location_classes)

\* C7: on a loaded engine, once predict has the point prediction and the
\* standard deviation of the staged predictions, it completes the interval
\* computation, with a confidence score in [0.5, 1.0] and a margin in
\* [0.08, 0.12].
C7_StagedDone ==
    ever_loaded /\ call_op = "predict" /\ "model_staged" \in DOMAIN seen
C7_ConfidenceAndMarginInRange ==
    C7_StagedDone =>
        /\ outcome \in {"none", "return"}
        /\ RLe(Rat(1, 2), locals.confidence_score)
        /\ RLe(locals.confidence_score, RInt(1))
        /\ RLe(Rat(8, 100), locals.margin)
        /\ RLe(locals.margin, Rat(12, 100))

\* C8: the margin computed by predict is 8% when the confidence score is
\* 1.0, 12% when the confidence score is at its floor 0.5, and does not
\* decrease when the dispersion grows.
C8_MarginEndpoints ==
    (C7_StagedDone /\ outcome \in {"none", "return"}) =>
        /\ locals.confidence_score = RInt(1) => locals.margin = Rat(8, 100)
        /\ locals.confidence_score = Rat(1, 2) =>
               locals.margin = Rat(12, 100)
        /\ \A s \in StdDevs :
               RLe(locals.std_dev, s) =>
                   RLe(locals.margin,
                       Margin(ConfidenceScore(locals.predicted_price, s)))

\* C9: every result of predict has low < predicted_price < high, strictly,
\* on the rounded values it returns.
C9_RangeStrict ==
    (ever_loaded /\ PredictReturned) =>
        /\ result.low < result.predicted_price
        /\ result.predicted_price < result.high

\* C10 as claimed: price_per_sqft is round(predicted_price / area_sqft),
\* predicted_price being the (rounded) field of the same result.
C10_PerSqftOfReturnedPrice ==
    (ever_loaded /\ PredictReturned /\ args.area_sqft > 0) =>
        result.price_per_sqft =
            PyRound(Rat(result.predicted_price, args.area_sqft))

\* C10 as amended: price_per_sqft is the rounding of p / area_sqft, p being
\* the model's unrounded point prediction of which the result's
\* predicted_price is the rounding: it lies within 1/2 of p / area_sqft,
\* and it is 0 when area_sqft is not positive.
C10_PerSqftOfPointPrediction ==
    PredictReturned =>
        LET n == locals.predicted_price[1]
            d == locals.predicted_price[2]
            a == args.area_sqft
        IN  /\ 2 * Abs(result.predicted_price * d - n) <= d
            /\ IF a > 0
               THEN 2 * Abs(result.price_per_sqft * a * d - n) <= a * d
               ELSE result.price_per_sqft = 0

\* C10 witness: a result whose price_per_sqft differs from the rounding of
\* its own predicted_price over the area.
C10_Witness ==
    /\ PredictReturned /\ args.area_sqft > 0
    /\ result.price_per_sqft #
           PyRound(Rat(result.predicted_price, args.area_sqft))

\* C11: the serving boundary answers 503 to a /predict, /locations or
\* /model-info request when the engine is not loaded, and 400 to a /predict
\* request on a loaded engine whose location the bundle does not know; 503
\* is given for no other condition, so the two are never merged with each
\* other or with 500.
C11_Answering == route_pc = "body" /\ route_pc' = "idle"
C11_StatusMapping ==
    [][C11_Answering =>
         /\ (request.route \in {"predict", "locations", "model-info"}
                /\ ~is_loaded) => response'.status = 503
         /\ (request.route = "predict" /\ is_loaded
                /\ request.location \notin ClassesOf(location_classes))
              => response'.status = 400
         /\ response'.status = 503 => ~is_loaded
         /\ response'.status = 500 =>
              (is_loaded /\ request.location \in ClassesOf(location_classes))
      ]_vars

\* C11 witness: a fully loaded engine has answered 400 to a /predict request
\* for "Mumbai", which the bundle does not know.
C11_Witness ==
    /\ ever_loaded /\ is_loaded /\ load_pc = "idle"
    /\ request.route = "predict" /\ request.location = "Mumbai"
    /\ "Mumbai" \notin ClassesOf(location_classes)
    /\ result = [kind |-> "raise", at |-> "l136"]
    /\ response.status = 400

\* C12: an exception raised inside predict after the location check has
\* passed, whatever its type, is answered by /predict with 500 and the fixed
\* generic text, never with 400 and never with the exception's own message.
C12_RaisedAfterLocationCheck ==
    /\ request.route = "predict"
    /\ response.status \notin {0, 422, 503}
    /\ result.kind = "raise"
    /\ result.at \notin {"l132", "l136"}
C12_UnexpectedIsGeneric500 ==
    C12_RaisedAfterLocationCheck =>
        response.status = 500 /\ response.detail = "generic"

\* C13: a /predict request with area_sqft outside (100, 10000), bhk or
\* bathrooms outside [1, 6], floor outside [0, 100], total_floors outside
\* [1, 80], age_of_property outside [0, 50] or a required field missing is
\* answered 422, on a loaded and on an unloaded engine alike, and
\* engine.predict is not invoked for it.
C13_OutOfShape ==
    /\ request.route = "predict"
    /\ \/ request.area_sqft <= 100 \/ request.area_sqft >= 10000
       \/ request.bhk < 1 \/ request.bhk > 6
       \/ request.bathrooms < 1 \/ request.bathrooms > 6
       \/ request.floor < 0 \/ request.floor > 100
       \/ request.total_floors < 1 \/ request.total_floors > 80
       \/ request.age_of_property < 0 \/ request.age_of_property > 50
       \/ \E f \in RequiredFields : f \notin request.present
C13_ValidationBeforeEngine ==
    C13_OutOfShape =>
        /\ response.status = 422
        /\ route_pc = "idle"
        /\ call_op = "none" /\ invoked = {}

\* C13 witness: a fully loaded engine, and a request with area_sqft = 100
\* (the excluded lower endpoint) has been answered 422.
C13_Witness ==
    /\ ever_loaded /\ is_loaded
    /\ C13_OutOfShape /\ request.area_sqft = 100
    /\ response.status = 422


\* C14: every field cleaner is total: for every raw input, missing values,
\* empty strings, non-numeric text and the spellings of infinity and
\* not-a-number included, it returns a valid cleaned value or None and
\* never raises.
C14_ValidCleaned ==
    CASE fn = "normalize_location" ->
           cleaned.t = "str" /\ cleaned.s \in VALID_LOCATIONS
      [] fn = "clean_price" ->
           cleaned.t = "float" /\ RLt(Rat(0, 1), cleaned.q)
      [] fn = "clean_bhk" ->
           cleaned.t = "int" /\ cleaned.i \in 1..6
      [] fn = "clean_floor" ->
           cleaned.t = "int" /\ cleaned.i \in 0..100
      [] fn = "clean_yes_no" ->
           cleaned.t = "int" /\ cleaned.i \in {0, 1}
C14_CleanersTotal ==
    fn # "none" =>
        /\ cleaned.t # "raise"
        /\ cleaned = NoneV \/ C14_ValidCleaned

\* C15: normalize_location returns the canonical name for every spelling
\* of an alias, in any letter case and with surrounding whitespace, returns
\* None for every other string, for the empty string and for missing
\* input, and never returns a name outside the canonical list.
C15_AliasSpellings(a) == Padded(Spellings(a))
C15_LocationNormalised ==
    fn = "normalize_location" =>
        /\ \A a \in DOMAIN LOCATION_ALIASES :
             (raw.t = "str" /\ raw.s \in C15_AliasSpellings(a))
                 => cleaned = StrV(LOCATION_ALIASES[a])
        /\ (raw.t = "str"
               /\ \A a \in DOMAIN LOCATION_ALIASES :
                    raw.s \notin C15_AliasSpellings(a)
               /\ raw.s \notin VALID_LOCATIONS)
             => cleaned = NoneV
        /\ (raw.t = "str" /\ raw.s \in VALID_LOCATIONS)
             => cleaned = StrV(raw.s)
        /\ raw \in MissingValues => cleaned = NoneV
        /\ cleaned.t = "str" => cleaned.s \in VALID_LOCATIONS

\* C15 witness: " CBD BELAPUR" followed by a tab has been normalised to
\* "CBD Belapur".
C15_Witness ==
    /\ fn = "normalize_location"
    /\ raw = StrV(" CBD BELAPUR\t")
    /\ cleaned = StrV("CBD Belapur")

\* C16: clean_price round-trips: a positive price written plain, with a
\* leading currency symbol, with thousands commas or with a trailing
\* currency code made of letters parses back to exactly that value; every
\* value <= 0 and every missing input gives None.
C16_PriceRoundTrip ==
    fn = "clean_price" =>
        /\ \A v \in Prices :
             (raw.t = "str" /\ raw.s \in Written(v))
                 => cleaned = FloatV(Rat(v, 1))
        /\ (raw.t = "int" /\ raw.i > 0) => cleaned = FloatV(Rat(raw.i, 1))
        /\ (raw.t = "float" /\ raw.q[1] > 0) => cleaned = FloatV(raw.q)
        /\ (raw.t = "int" /\ raw.i <= 0) => cleaned = NoneV
        /\ (raw.t = "float" /\ raw.q[1] <= 0) => cleaned = NoneV
        /\ raw \in MissingValues => cleaned = NoneV

\* C17: the range checks of clean_bhk and clean_floor are inclusive and do
\* not clamp: for a numeric input v, integer or fractional, given as a
\* number or as a numeric string, a value is returned only when v is in
\* [1, 6] (clean_bhk) or [0, 100] (clean_floor), every v outside gives
\* None, and the bounds themselves are accepted.
C17_IsNumber ==
    \/ raw.t \in {"int", "float"}
    \/ raw.t = "str" /\ ParseFloat(raw.s).k = "fin"
C17_Number ==
    CASE raw.t = "int" -> Rat(raw.i, 1)
      [] raw.t = "float" -> raw.q
      [] raw.t = "str" -> ParseFloat(raw.s).v
C17_RangeOf(lo, hi) ==
    LET v == C17_Number
        inside == RLe(Rat(lo, 1), v) /\ RLe(v, Rat(hi, 1))
    IN  /\ cleaned.t = "int" => inside
        /\ ~inside => cleaned = NoneV
        /\ v = Rat(lo, 1) => cleaned = IntV(lo)
        /\ v = Rat(hi, 1) => cleaned = IntV(hi)
C17_RangeInclusiveNoClamp ==
    /\ (fn = "clean_bhk" /\ C17_IsNumber) => C17_RangeOf(1, 6)
    /\ (fn = "clean_floor" /\ C17_IsNumber) => C17_RangeOf(0, 100)

\* C18: clean_yes_no returns 1 for every case variant, with surrounding
\* whitespace, of yes, y, 1 and true, 0 for every case variant of no, n, 0
\* and false, and None for every other string and for missing input.
C18_Affirmative == {"yes", "y", "1", "true"}
C18_Negative == {"no", "n", "0", "false"}
C18_SpellingsOf(tokens) == Padded(UNION {Spellings(k) : k \in tokens})
C18_YesNoTokens ==
    fn = "clean_yes_no" =>
        /\ (raw.t = "str" /\ raw.s \in C18_SpellingsOf(C18_Affirmative))
             => cleaned = IntV(1)
        /\ (raw.t = "str" /\ raw.s \in C18_SpellingsOf(C18_Negative))
             => cleaned = IntV(0)
        /\ (raw.t = "str"
               /\ raw.s \notin C18_SpellingsOf(C18_Affirmative)
               /\ raw.s \notin C18_SpellingsOf(C18_Negative))
             => cleaned = NoneV
        /\ raw \in MissingValues => cleaned = NoneV

\* C18 witness: " TRUE" followed by a tab has been read as 1.
C18_Witness ==
    /\ fn = "clean_yes_no"
    /\ raw = StrV(" TRUE\t")
    /\ cleaned = IntV(1)


\* C19: whenever preprocess_dataset returns, every output row is a valid
\* Cleaned Record: a canonical location, 100 < area_sqft < 10000, bhk and
\* bathrooms integers in [1, 6], floor an integer in [0, 100], total_floors
\* an integer in [1, 80], age_of_property in [0, 50], parking and lift in
\* {0, 1}, actual_price > 0, and no field missing.
C19_CleanedRecord(r) ==
    /\ r.location.t = "str" /\ r.location.s \in VALID_LOCATIONS
    /\ r.area_sqft.t = "float"
    /\ RLt(Rat(100, 1), r.area_sqft.q) /\ RLt(r.area_sqft.q, Rat(10000, 1))
    /\ r.bhk.t = "int" /\ r.bhk.i \in 1..6
    /\ r.bathrooms.t = "int" /\ r.bathrooms.i \in 1..6
    /\ r.floor.t = "int" /\ r.floor.i \in 0..100
    /\ r.total_floors.t = "int" /\ r.total_floors.i \in 1..80
    /\ r.age_of_property.t = "float"
    /\ RLe(Rat(0, 1), r.age_of_property.q)
    /\ RLe(r.age_of_property.q, Rat(50, 1))
    /\ r.parking.t = "int" /\ r.parking.i \in {0, 1}
    /\ r.lift.t = "int" /\ r.lift.i \in {0, 1}
    /\ r.actual_price.t = "float" /\ RLt(Rat(0, 1), r.actual_price.q)
C19_OutputRowsValid ==
    (fn = "preprocess_dataset" /\ cleaned.t = "frame") =>
        \A i \in 1..Len(cleaned.rows) : C19_CleanedRecord(cleaned.rows[i])


\* C20: trainer persistence is write-then-publish: at every point of
\* train_model's write of the bundle, and if the write is interrupted, a
\* load_model on the published path finds no artifact or loads a complete
\* bundle, the previous one or the new one; it never reads a partially
\* written bundle.
C20_LoadSeesWholeBundles ==
    /\ load_pc \notin {"idle", "l74"} => (bundle.exists /\ bundle.whole)
    /\ LoadFinished =>
         \/ load_outcome = "FileNotFoundError" /\ ~artifact.exists
         \/ load_outcome = "ok" /\ \E v \in 1..MaxVer : bundle = Complete(v)


\* C21: the price-per-area filter of preprocess_dataset keeps a row if and
\* only if 2000 <= actual_price / area_sqft <= 50000: a row whose derived
\* value is exactly 2000 or exactly 50000 is kept, a row outside the closed
\* interval is dropped, and the derived column is not in the output.
C21_InClosedInterval(r) ==
    /\ RLe(Rat(2000, 1), RDiv(r.actual_price.q, r.area_sqft.q))
    /\ RLe(RDiv(r.actual_price.q, r.area_sqft.q), Rat(50000, 1))
C21_ClosedIntervalFilter ==
    (fn = "preprocess_dataset" /\ cleaned.t = "frame") =>
        /\ cleaned.rows =
             SelectSeq(Step_outliers(cleaned.imputed), C21_InClosedInterval)
        /\ \A i \in 1..Len(cleaned.rows) :
             "price_per_sqft" \notin DOMAIN cleaned.rows[i]


\* C22: imputed fields never make preprocess_dataset fail or drop a row:
\* for every dataset, also one where bhk, bathrooms, floor, total_floors,
\* age_of_property, parking or lift is unparseable in every row, the call
\* returns, the rows after the parking/lift step are the rows that passed
\* the location, area and price filters, and each unparseable bhk or floor
\* is replaced by the (integer of the) median of the values parsed among
\* those rows.
C22_MedianOf(df, c) == Median(Mapped(CleanedCount(df, c), AsFloat))
C22_Filled(df, c, i) ==
    LET x == CleanedCount(df, c)[i]
    IN  IF x.t = "int" THEN x
        ELSE LET m == C22_MedianOf(df, c)
             IN  IF m.t = "float" THEN IntV(Trunc(m.q)) ELSE m
C22_ImputationNeverFails ==
    fn = "preprocess_dataset" =>
        /\ cleaned.t = "frame"
        /\ Len(cleaned.imputed) = Len(cleaned.kept)
        /\ \A i \in 1..Len(cleaned.kept) :
             /\ cleaned.imputed[i].location = cleaned.kept[i].location
             /\ cleaned.imputed[i].area_sqft = cleaned.kept[i].area_sqft
             /\ cleaned.imputed[i].actual_price = cleaned.kept[i].actual_price
             /\ cleaned.imputed[i].bhk = C22_Filled(cleaned.kept, "bhk", i)
             /\ cleaned.imputed[i].floor = C22_Filled(cleaned.kept, "floor", i)


\* C23: every canonical location is reachable through the serving boundary:
\* for every name of VALID_LOCATIONS that is in the loaded bundle's
\* location_classes, a /predict request naming it in its canonical spelling
\* or in any case/whitespace variant of it is, after the request schema's
\* normalization, equal to that class, and predict's location check accepts
\* it instead of rejecting it as unknown.
C23_Names(c) ==
    /\ request.route = "predict"
    /\ Lower(Strip(request.location)) = Lower(c)
C23_CanonicalReachable ==
    (route_pc = "body" /\ C6_LocationChecked) =>
        \A c \in VALID_LOCATIONS \cap ClassesOf(seen.location_classes) :
            C23_Names(c) =>
                /\ request.location = c
                /\ args.location = c
                /\ ~C6_Rejected


\* C24: read operations never mutate the published bundle: every step of
\* predict (returning, raising not-ready or raising unknown-location), of
\* get_locations, of get_model_info and of is_loaded leaves the eight engine
\* fields unchanged, and what such a step reads from a field is the value the
\* field holds; so calls interleaved with one another read what they would
\* read run one after another.
C24_FieldRead(f) ==
    CASE f \in {"is_loaded", "model", "model_staged"} -> model
      [] f \in {"location_classes", "locations_count"} -> location_classes
      [] f = "label_encoder" -> label_encoder
      [] f = "features" -> features
      [] f = "scaler" -> scaler
      [] f = "location_stats" -> location_stats
      [] f = "model_metrics" -> model_metrics
      [] f = "feature_importance" -> feature_importance
C24_ReaderStep == reader' # reader
====
